---- MODULE Spec2Model ----
(***************************************************************************)
(* Model of parse_mate.file_finder: the FileFinder class (construction,    *)
(* find_files, filter_by_date, filter_by_size, order_files and             *)
(* _verify_existence) over an abstract filesystem.                         *)
(*                                                                         *)
(* A name is a tuple of one-character strings, a path a tuple of names     *)
(* (<<>> is the top directory), and the filesystem a function from the     *)
(* existing paths to their [kind, mtime, size].  Symbolic links are not    *)
(* modelled: every entry is a regular file or a directory.                 *)
(***************************************************************************)
EXTENDS Integers, Sequences, FiniteSets, TLC

VARIABLES
    fs,               \* the filesystem: existing path -> [kind, mtime, size]
    pc,               \* position of the running call
    raised,           \* the exception the call ended with, or None
    errpath,          \* the path an OSError names, or None
    directory,        \* FileFinder.directory
    filename_pattern, \* FileFinder.filename_pattern
    max_depth,        \* find_files: its argument
    stack,            \* find_files: directories os.walk has still to visit
    matched_files,    \* find_files: its local, and return value
    op,               \* the filter/order method being run
    list_of_files,    \* filter/order: the argument (after line 180 in order_files)
    params,           \* filter/order: the other arguments
    idx,              \* filter loops: index of the next entry
    filtered_files,   \* filter loops: the local list
    reads,            \* metadata reads (getmtime, stat) made by the running call
    result,           \* the returned list, or None
    first             \* the caller's copy of an earlier order_files result, or None

vars == <<fs, pc, raised, errpath, directory, filename_pattern, max_depth, stack,
          matched_files, op, list_of_files, params, idx, filtered_files, reads,
          result, first>>

findVars == <<directory, filename_pattern, max_depth, stack, matched_files>>
opsVars == <<op, list_of_files, params, idx, filtered_files, reads, result, first>>

\* Python's None is the empty tuple, a value x that is present the tuple <<x>>;
\* an exception is named by its class, NoError when there is none
None == <<>>
Some(x) == <<x>>
NoError == "NoError"

\* the arguments of a filter/order call besides the list; the ones a method
\* does not take stay at their defaults
Args(fd, ft, mn, mx, ob) ==
    [filter_date |-> fd, filter_type |-> ft, min_size |-> mn, max_size |-> mx,
     order_by |-> ob]

Date(d) == [type |-> "date", value |-> d]
Datetime(t) == [type |-> "datetime", value |-> t]

NoParams == Args(Date(0), "=", None, None, "modified_desc")

(* ------------------------------ bounds -------------------------------- *)

\* entries (besides the top directory) of a filesystem find_files walks
MaxEntries == 3
\* length of the longest path of such a filesystem
MaxTreeDepth == 3
\* largest max_depth passed to find_files
MaxDepthArg == 2
\* length of the longest list passed to a filter or to order_files
MaxLen == 3
\* modification times are 0..MaxTime, a day has TicksPerDay of them
MaxTime == 2
TicksPerDay == 2
\* file sizes, and the size bounds passed, are 0..MaxSize
MaxSize == 1

(* ------------------------------ strings ------------------------------- *)

\* ord() of the characters that take part in a string comparison
Ord(c) ==
    CASE c = "/" -> 47
      [] c = "A" -> 65
      [] c = "B" -> 66
      [] c = "a" -> 97
      [] c = "b" -> 98

\* str.lower() on one character
LowerChar(c) ==
    CASE c = "A" -> "a"
      [] c = "B" -> "b"
      [] OTHER -> c

Lower(s) == [i \in 1..Len(s) |-> LowerChar(s[i])]

\* str(Path): the names joined by "/"
RECURSIVE PathStr(_)
PathStr(p) ==
    IF Len(p) = 0 THEN <<>>
    ELSE IF Len(p) = 1 THEN p[1]
    ELSE PathStr(SubSeq(p, 1, Len(p) - 1)) \o <<"/">> \o p[Len(p)]

\* s < t for Python strings: the first differing character decides, a proper
\* prefix is smaller
RECURSIVE StrLess(_, _)
StrLess(s, t) ==
    IF Len(t) = 0 THEN FALSE
    ELSE IF Len(s) = 0 THEN TRUE
    ELSE IF s[1] = t[1] THEN StrLess(Tail(s), Tail(t))
    ELSE Ord(s[1]) < Ord(t[1])

(* ------------------------------ fnmatch ------------------------------- *)

\* fnmatch.translate: the index of the "]" closing the class opened at p[j],
\* or 0 when there is none (the "[" is then a literal)
RECURSIVE ScanClose(_, _)
ScanClose(p, k) ==
    IF k > Len(p) THEN 0
    ELSE IF p[k] = "]" THEN k
    ELSE ScanClose(p, k + 1)

ClassEnd(p, j) ==
    LET a == IF j + 1 <= Len(p) /\ p[j + 1] = "!" THEN j + 2 ELSE j + 1
        b == IF a <= Len(p) /\ p[a] = "]" THEN a + 1 ELSE a
    IN  ScanClose(p, b)

\* whether character c is in the class p[j] = "[" ... p[k] = "]"
InClass(c, p, j, k) ==
    IF p[j + 1] = "!"
    THEN \A m \in (j + 2)..(k - 1) : p[m] # c
    ELSE \E m \in (j + 1)..(k - 1) : p[m] = c

\* whether s[i..] matches the pattern p[j..]
RECURSIVE GlobMatch(_, _, _, _)
GlobMatch(s, i, p, j) ==
    IF j > Len(p) THEN i > Len(s)
    ELSE IF p[j] = "*"
    THEN GlobMatch(s, i, p, j + 1) \/ (i <= Len(s) /\ GlobMatch(s, i + 1, p, j))
    ELSE IF p[j] = "?"
    THEN i <= Len(s) /\ GlobMatch(s, i + 1, p, j + 1)
    ELSE IF p[j] = "[" /\ ClassEnd(p, j) # 0
    THEN /\ i <= Len(s)
         /\ InClass(s[i], p, j, ClassEnd(p, j))
         /\ GlobMatch(s, i + 1, p, ClassEnd(p, j) + 1)
    ELSE i <= Len(s) /\ s[i] = p[j] /\ GlobMatch(s, i + 1, p, j + 1)

\* fnmatch.fnmatch(name, pat) where os.path.normcase is the identity (POSIX)
fnmatch(name, pat) == GlobMatch(name, 1, pat, 1)

(* ---------------------------- filesystem ------------------------------ *)

Names == {<<"a">>, <<"b">>, <<"a", "b">>}

Patterns == {<<"*">>, <<"a", "*">>, <<"?">>, <<"[", "!", "a", "]">>, <<"[">>, <<"b">>}

Stat(k, t, s) == [kind |-> k, mtime |-> t, size |-> s]

TopOnly == [p \in {<<>>} |-> Stat("dir", 0, 0)]

AddEntry(t, p, st) == [q \in DOMAIN t \cup {p} |-> IF q = p THEN st ELSE t[q]]

exists(f, p) == p \in DOMAIN f
isdir(f, p) == p \in DOMAIN f /\ f[p].kind = "dir"
isfile(f, p) == p \in DOMAIN f /\ f[p].kind = "file"

Parent(p) == SubSeq(p, 1, Len(p) - 1)
Basename(p) == p[Len(p)]
IsPrefix(d, p) == Len(d) <= Len(p) /\ SubSeq(p, 1, Len(d)) = d

\* the paths a new entry of t may take
Addable(t) ==
    {Append(d, n) : d \in {q \in DOMAIN t : isdir(t, q) /\ Len(q) < MaxTreeDepth},
                    n \in Names} \ DOMAIN t

\* the directory trees of at most n entries below the top directory
RECURSIVE Trees(_)
Trees(n) ==
    IF n = 0 THEN {TopOnly}
    ELSE LET prev == Trees(n - 1)
         IN  prev \cup UNION {{AddEntry(t, p, Stat(k, 0, 0)) :
                                  p \in Addable(t), k \in {"file", "dir"}} : t \in prev}

\* the directory arguments tried: every path of at most MaxTreeDepth - 1 names
RECURSIVE PathsUpTo(_)
PathsUpTo(n) ==
    IF n = 0 THEN {<<>>}
    ELSE LET prev == PathsUpTo(n - 1)
         IN  prev \cup {Append(q, m) : q \in prev, m \in Names}

\* the permutations of a finite set, as sequences
Perms(S) ==
    {f \in [1..Cardinality(S) -> S] : \A i, j \in 1..Cardinality(S) : i # j => f[i] # f[j]}

Reverse(s) == [i \in 1..Len(s) |-> s[Len(s) + 1 - i]]

(* ----------------------------- __init__ ------------------------------- *)

InitOutcome_IsdirFirst(f, d) ==
    IF ~isdir(f, d) THEN "NotADirectoryError"
    ELSE IF ~exists(f, d) THEN "FileNotFoundError"
    ELSE NoError

\* the exception FileFinder.__init__ raises on directory d, or None
InitOutcome(f, d) ==
    IF ~exists(f, d) THEN "FileNotFoundError"
    ELSE IF ~isdir(f, d) THEN "NotADirectoryError"
    ELSE NoError

Construct ==
    /\ pc = "new"
    /\ \E d \in PathsUpTo(MaxTreeDepth - 1), pat \in Patterns :
          /\ directory' = d
          /\ filename_pattern' = pat
          /\ raised' = InitOutcome(fs, d)
          /\ pc' = IF InitOutcome(fs, d) = NoError THEN "constructed" ELSE "raised"
    /\ UNCHANGED <<fs, errpath, max_depth, stack, matched_files>>
    /\ UNCHANGED opsVars

(* ---------------------------- find_files ------------------------------ *)

DepthArgs == {None} \cup {Some(n) : n \in 0..MaxDepthArg}

FindFiles ==
    /\ pc = "constructed"
    /\ \E md \in DepthArgs : max_depth' = md
    /\ matched_files' = <<>>
    /\ stack' = <<directory>>
    /\ pc' = "walking"
    /\ UNCHANGED <<fs, raised, errpath, directory, filename_pattern>>
    /\ UNCHANGED opsVars

\* os.walk: the sub-directories and the other entries of directory root
WalkDirs(f, root) == {p \in DOMAIN f : Len(p) > 0 /\ Parent(p) = root /\ isdir(f, p)}

WalkFiles_All(f, root) == {p \in DOMAIN f : Len(p) > 0 /\ Parent(p) = root}

WalkFiles(f, root) == {p \in DOMAIN f : Len(p) > 0 /\ Parent(p) = root /\ ~isdir(f, p)}

\* line 86
CurrentDepth(root, base) == Len(root) - Len(base)

Prune_Greater(md, current_depth) == md # None /\ current_depth > md[1]

\* line 88: whether dirs is emptied
Prune(md, current_depth) == md # None /\ current_depth >= md[1]

\* lines 91-93 on the listing files (a sequence)
Matching(files, pat) == SelectSeq(files, LAMBDA p : fnmatch(Basename(p), pat))

\* one iteration of the loop over os.walk: the directory on top of the stack is
\* listed (in any order), its sub-directories are kept or dropped, its matching
\* files appended
WalkStep ==
    /\ pc = "walking"
    /\ Len(stack) > 0
    /\ LET root == stack[Len(stack)]
           rest == SubSeq(stack, 1, Len(stack) - 1)
       IN  \E dirs \in Perms(WalkDirs(fs, root)), files \in Perms(WalkFiles(fs, root)) :
              /\ stack' = IF Prune(max_depth, CurrentDepth(root, directory))
                          THEN rest
                          ELSE rest \o Reverse(dirs)
              /\ matched_files' = matched_files \o Matching(files, filename_pattern)
    /\ UNCHANGED <<fs, pc, raised, errpath, directory, filename_pattern, max_depth>>
    /\ UNCHANGED opsVars

FindReturn ==
    /\ pc = "walking"
    /\ Len(stack) = 0
    /\ pc' = "found"
    /\ UNCHANGED <<fs, raised, errpath>>
    /\ UNCHANGED findVars
    /\ UNCHANGED opsVars

(* ------------------- filesystems of the filter/order calls ------------- *)

\* the files the lists name, all inside the directory "B"
OpsDir == <<<<"B">>>>
OrderPaths == {OpsDir \o <<n>> : n \in {<<"a">>, <<"A">>, <<"A", "b">>}}
FilterPaths == {OpsDir \o <<n>> : n \in {<<"a">>, <<"A", "b">>}}

\* the filesystems in which each of paths is missing or a file with a
\* modification time of times and a size of sizes
RECURSIVE WithFiles(_, _, _)
WithFiles(paths, times, sizes) ==
    IF paths = {} THEN {AddEntry(TopOnly, OpsDir, Stat("dir", 0, 0))}
    ELSE LET p == CHOOSE q \in paths : TRUE
             rest == WithFiles(paths \ {p}, times, sizes)
         IN  rest \cup {AddEntry(t, p, Stat("file", m, z)) :
                           t \in rest, m \in times, z \in sizes}

\* a list entry: a str or a pathlib.Path naming path p
Entry(r, p) == [repr |-> r, path |-> p]

RECURSIVE ListsUpTo(_, _)
ListsUpTo(entries, n) ==
    IF n = 0 THEN {<<>>}
    ELSE LET prev == ListsUpTo(entries, n - 1)
         IN  prev \cup {Append(l, e) : l \in {x \in prev : Len(x) = n - 1}, e \in entries}

EntriesOf(paths) == {Entry(r, p) : r \in {"str", "Path"}, p \in paths}

\* Path(x) for a str x, x itself for a Path
ToPath(e) == Entry("Path", e.path)

(* -------------------------- _verify_existence -------------------------- *)

\* line 192, "file.exists" without a call: the bound method of a Path, which
\* is truthy whether or not the file exists
ExistsAttribute(f, e) == TRUE

\* lines 191-193 from entry i on: the exception raised, or NoError.  A str has
\* no attribute "exists".
RECURSIVE VerifyFrom(_, _, _)
VerifyFrom(f, list, i) ==
    IF i > Len(list) THEN NoError
    ELSE IF list[i].repr = "str" THEN "AttributeError"
    ELSE IF ~ExistsAttribute(f, list[i]) THEN "FileExistsError"
    ELSE VerifyFrom(f, list, i + 1)

VerifyExistence ==
    /\ pc = "verify"
    /\ raised' = VerifyFrom(fs, list_of_files, 1)
    /\ pc' = IF VerifyFrom(fs, list_of_files, 1) # NoError THEN "raised"
             ELSE IF op = "order_files" THEN "sort"
             ELSE "loop"
    /\ idx' = 1
    /\ UNCHANGED <<fs, errpath, op, list_of_files, params, filtered_files, reads,
                   result, first>>
    /\ UNCHANGED findVars

(* ---------------------------- filter_by_date --------------------------- *)

FilterTypes == {">", ">=", "=", "<=", "<"}

\* the reference values tried: every day and every timestamp of the range
FilterDates ==
    {Date(d) : d \in 0..(MaxTime \div TicksPerDay)} \cup {Datetime(t) : t \in 0..MaxTime}

\* datetime.fromtimestamp(os.path.getmtime(...)), and datetime.date()
FromTimestamp(t) == Datetime(t)
DateOf(dt) == Date(dt.value \div TicksPerDay)

\* isinstance(x, date): datetime is a subclass of date
IsInstanceOfDate(x) == x.type \in {"date", "datetime"}

\* _FILTER_OPERATORS on Python's date and datetime: an ordering comparison of
\* a date with a datetime raises TypeError, and the two are never equal
CompareRaises(ft, l, r) == l.type # r.type /\ ft # "="

CompareHolds(ft, l, r) ==
    /\ l.type = r.type
    /\ CASE ft = ">" -> l.value > r.value
         [] ft = ">=" -> l.value >= r.value
         [] ft = "=" -> l.value = r.value
         [] ft = "<=" -> l.value <= r.value
         [] ft = "<" -> l.value < r.value

\* lines 119-121
FileModTime(f, p, fd) ==
    IF IsInstanceOfDate(fd) THEN DateOf(FromTimestamp(f[p].mtime))
    ELSE FromTimestamp(f[p].mtime)

FilterByDateCall ==
    /\ pc = "idle"
    /\ \E l \in ListsUpTo(EntriesOf(FilterPaths), MaxLen), fd \in FilterDates,
          ft \in FilterTypes :
          /\ list_of_files' = l
          /\ params' = Args(fd, ft, None, None, NoParams.order_by)
    /\ op' = "filter_by_date"
    /\ filtered_files' = <<>>
    /\ reads' = <<>>
    /\ pc' = "verify"
    /\ UNCHANGED <<fs, raised, errpath, idx, result, first>>
    /\ UNCHANGED findVars

\* one iteration of the loop of lines 116-124
FilterByDateIter ==
    /\ pc = "loop"
    /\ op = "filter_by_date"
    /\ idx <= Len(list_of_files)
    /\ LET e == list_of_files[idx]
           fd == params.filter_date
       IN  IF ~exists(fs, e.path)
           THEN /\ pc' = "raised"
                /\ raised' = "FileNotFoundError"
                /\ errpath' = Some(e.path)
                /\ UNCHANGED <<idx, filtered_files, reads>>
           ELSE /\ reads' = Append(reads, <<"getmtime", e.path>>)
                /\ IF CompareRaises(params.filter_type, FileModTime(fs, e.path, fd), fd)
                   THEN /\ pc' = "raised"
                        /\ raised' = "TypeError"
                        /\ UNCHANGED <<idx, filtered_files, errpath>>
                   ELSE /\ filtered_files' =
                              IF CompareHolds(params.filter_type,
                                              FileModTime(fs, e.path, fd), fd)
                              THEN Append(filtered_files, ToPath(e))
                              ELSE filtered_files
                        /\ idx' = idx + 1
                        /\ UNCHANGED <<pc, raised, errpath>>
    /\ UNCHANGED <<fs, op, list_of_files, params, result, first>>
    /\ UNCHANGED findVars

(* ---------------------------- filter_by_size --------------------------- *)

SizeBounds == {None} \cup {Some(n) : n \in 0..MaxSize}

\* line 155
SizePasses(file_size, min_size, max_size) ==
    /\ (min_size = None \/ file_size >= min_size[1])
    /\ (max_size = None \/ file_size <= max_size[1])

FilterBySizeCall ==
    /\ pc = "idle"
    /\ \E l \in ListsUpTo(EntriesOf(FilterPaths), MaxLen), mn \in SizeBounds,
          mx \in SizeBounds :
          /\ list_of_files' = l
          /\ params' = Args(NoParams.filter_date, NoParams.filter_type, mn, mx,
                            NoParams.order_by)
    /\ op' = "filter_by_size"
    /\ filtered_files' = <<>>
    /\ reads' = <<>>
    /\ pc' = "verify"
    /\ UNCHANGED <<fs, raised, errpath, idx, result, first>>
    /\ UNCHANGED findVars

\* one iteration of the loop of lines 151-156
FilterBySizeIter ==
    /\ pc = "loop"
    /\ op = "filter_by_size"
    /\ idx <= Len(list_of_files)
    /\ LET e == list_of_files[idx]
       IN  IF ~exists(fs, e.path)
           THEN /\ pc' = "raised"
                /\ raised' = "FileNotFoundError"
                /\ errpath' = Some(e.path)
                /\ UNCHANGED <<idx, filtered_files, reads>>
           ELSE /\ reads' = Append(reads, <<"stat", e.path>>)
                /\ filtered_files' =
                      IF SizePasses(fs[e.path].size, params.min_size, params.max_size)
                      THEN Append(filtered_files, ToPath(e))
                      ELSE filtered_files
                /\ idx' = idx + 1
                /\ UNCHANGED <<pc, raised, errpath>>
    /\ UNCHANGED <<fs, op, list_of_files, params, result, first>>
    /\ UNCHANGED findVars

\* lines 126 and 158
FilterReturn ==
    /\ pc = "loop"
    /\ idx > Len(list_of_files)
    /\ result' = Some(filtered_files)
    /\ pc' = "returned"
    /\ UNCHANGED <<fs, raised, errpath, op, list_of_files, params, idx, filtered_files,
                   reads, first>>
    /\ UNCHANGED findVars


(* ----------------------------- order_files ----------------------------- *)

OrderBys == {"name_asc", "name_desc", "modified_asc", "modified_desc", "unrecognized"}

\* line 184: _ORDER_OPERATIONS.get(order_by, _ORDER_OPERATIONS[OrderBy.NAME_ASC])
Dispatch(ob) ==
    IF ob \in {"name_asc", "name_desc", "modified_asc", "modified_desc"} THEN ob
    ELSE "name_asc"

ByName(ob) == Dispatch(ob) \in {"name_asc", "name_desc"}
Descending(ob) == Dispatch(ob) \in {"name_desc", "modified_desc"}

OrderKey_DescNotLowered(f, ob, e) ==
    IF Dispatch(ob) = "name_asc" THEN Lower(PathStr(e.path))
    ELSE IF Dispatch(ob) = "name_desc" THEN PathStr(e.path)
    ELSE f[e.path].mtime

\* the key functions of lines 40-43
OrderKey(f, ob, e) ==
    IF ByName(ob) THEN Lower(PathStr(e.path)) ELSE f[e.path].mtime

\* k1 < k2 on two keys of criterion ob
KeyLess(ob, k1, k2) == IF ByName(ob) THEN StrLess(k1, k2) ELSE k1 < k2

RECURSIVE StableSort_BeforeEqual(_, _, _)
StableSort_BeforeEqual(f, ob, s) ==
    IF Len(s) = 0 THEN <<>>
    ELSE LET srt == StableSort_BeforeEqual(f, ob, SubSeq(s, 1, Len(s) - 1))
             x == s[Len(s)]
             n == Cardinality({i \in 1..Len(srt) :
                     KeyLess(ob, OrderKey(f, ob, srt[i]), OrderKey(f, ob, x))})
         IN  SubSeq(srt, 1, n) \o <<x>> \o SubSeq(srt, n + 1, Len(srt))

\* list.sort without reverse: a stable sort, every item placed behind the
\* items of the sorted prefix that are not greater
RECURSIVE StableSort(_, _, _)
StableSort(f, ob, s) ==
    IF Len(s) = 0 THEN <<>>
    ELSE LET srt == StableSort(f, ob, SubSeq(s, 1, Len(s) - 1))
             x == s[Len(s)]
             n == Cardinality({i \in 1..Len(srt) :
                     ~KeyLess(ob, OrderKey(f, ob, x), OrderKey(f, ob, srt[i]))})
         IN  SubSeq(srt, 1, n) \o <<x>> \o SubSeq(srt, n + 1, Len(srt))

Sorted_ReversedAfterwards(f, ob, s) ==
    IF Descending(ob) THEN Reverse(StableSort(f, ob, s)) ELSE StableSort(f, ob, s)

\* sorted(s, key=..., reverse=...): with reverse the list is reversed, sorted
\* and reversed again, which keeps equal keys in their order
Sorted(f, ob, s) ==
    IF Descending(ob) THEN Reverse(StableSort(f, ob, Reverse(s)))
    ELSE StableSort(f, ob, s)

\* the entries whose key is computed before sorted fails: all of them, or those
\* before the first file os.path.getmtime does not find
RECURSIVE KeyedPrefix(_, _, _)
KeyedPrefix(f, s, i) ==
    IF i > Len(s) \/ ~exists(f, s[i].path) THEN <<>>
    ELSE <<s[i]>> \o KeyedPrefix(f, s, i + 1)

\* lines 177-180 on the list l
OrderEnter(l, ob) ==
    /\ op' = "order_files"
    /\ params' = Args(NoParams.filter_date, NoParams.filter_type, None, None, ob)
    /\ list_of_files' = [i \in 1..Len(l) |-> ToPath(l[i])]
    /\ reads' = <<>>
    /\ raised' = NoError
    /\ errpath' = None
    /\ IF Len(l) = 0
       THEN pc' = "returned" /\ result' = Some(<<>>)
       ELSE pc' = "verify" /\ result' = None
    /\ UNCHANGED <<fs, idx, filtered_files>>
    /\ UNCHANGED findVars

OrderFilesCall ==
    /\ pc = "idle"
    /\ \E l \in ListsUpTo(EntriesOf(OrderPaths), MaxLen), ob \in OrderBys :
          OrderEnter(l, ob)
    /\ first' = None

\* the caller passes the list order_files returned to order_files again, with
\* the same criterion
OrderFilesAgain ==
    /\ pc = "returned"
    /\ op = "order_files"
    /\ first = None
    /\ first' = result
    /\ OrderEnter(result[1], params.order_by)

\* line 184
OrderSort ==
    /\ pc = "sort"
    /\ LET ob == params.order_by
           keyed == IF ByName(ob) THEN list_of_files
                    ELSE KeyedPrefix(fs, list_of_files, 1)
       IN  /\ reads' = IF ByName(ob) THEN <<>>
                       ELSE [i \in 1..Len(keyed) |-> <<"getmtime", keyed[i].path>>]
           /\ IF Len(keyed) < Len(list_of_files)
              THEN /\ pc' = "raised"
                   /\ raised' = "FileNotFoundError"
                   /\ errpath' = Some(list_of_files[Len(keyed) + 1].path)
                   /\ UNCHANGED result
              ELSE /\ pc' = "returned"
                   /\ result' = Some(Sorted(fs, ob, list_of_files))
                   /\ UNCHANGED <<raised, errpath>>
    /\ UNCHANGED <<fs, op, list_of_files, params, idx, filtered_files, first>>
    /\ UNCHANGED findVars


(* ------------------ properties of the filters and order_files ---------- *)

Ended == pc \in {"returned", "raised"}

AllExist(l) == \A i \in 1..Len(l) : exists(fs, l[i].path)

PathsOf(l) == [i \in 1..Len(l) |-> l[i].path]

\* what the specification calls a not-found error
NotFoundErrors == {"FileNotFoundError", "FileExistsError"}

\* C1: filter_by_date, filter_by_size and order_files (with every criterion),
\* called with a non-empty list in which a path does not exist, raise a
\* not-found error and return no list.
C1_MissingPathRaises ==
    (op # "none" /\ Ended /\ Len(list_of_files) > 0 /\ ~AllExist(list_of_files)) =>
        (pc = "raised" /\ raised \in NotFoundErrors /\ result = None)

\* the comparison C2 describes: against a calendar date the file's day, against
\* a timestamp the file's full modification time
C2_Holds(e) ==
    LET fd == params.filter_date
        t == IF fd.type = "date" THEN fs[e.path].mtime \div TicksPerDay
             ELSE fs[e.path].mtime
    IN  CASE params.filter_type = ">" -> t > fd.value
          [] params.filter_type = ">=" -> t >= fd.value
          [] params.filter_type = "=" -> t = fd.value
          [] params.filter_type = "<=" -> t <= fd.value
          [] params.filter_type = "<" -> t < fd.value

\* C2: filter_by_date compares the file's calendar date with a reference date
\* and the file's full modification time with a reference timestamp, and
\* returns exactly the entries for which the comparison of the filter type
\* holds (stated here on lists of existing Path objects).
C2_DateFilter ==
    (/\ op = "filter_by_date"
     /\ Ended
     /\ AllExist(list_of_files)
     /\ \A i \in 1..Len(list_of_files) : list_of_files[i].repr = "Path") =>
        (pc = "returned" /\ result = Some(SelectSeq(list_of_files, C2_Holds)))

C8_InRange(e) == SizePasses(fs[e.path].size, params.min_size, params.max_size)

\* C8: filter_by_size on a list of existing paths returns, in their order,
\* exactly the entries whose size lies within the inclusive bounds that are set.
C8_SizeFilter ==
    (op = "filter_by_size" /\ Ended /\ AllExist(list_of_files)) =>
        /\ pc = "returned"
        /\ result # None
        /\ PathsOf(result[1]) = PathsOf(SelectSeq(list_of_files, C8_InRange))

\* C10: when a filter fails with the not-found error, the error names the
\* first missing path of the list and no modification time or size has been
\* read, those of the existing entries before the missing one included.
C10_NothingReadBeforeFailure ==
    (op \in {"filter_by_date", "filter_by_size"} /\ pc = "raised"
         /\ raised \in NotFoundErrors) =>
        /\ \E i \in 1..Len(list_of_files) :
              /\ ~exists(fs, list_of_files[i].path)
              /\ AllExist(SubSeq(list_of_files, 1, i - 1))
              /\ errpath = Some(list_of_files[i].path)
        /\ reads = <<>>

FourCriteria == {"name_asc", "name_desc", "modified_asc", "modified_desc"}

\* the sort key the specification gives entry e under criterion ob
SpecKey(ob, e) ==
    IF ob \in {"name_asc", "name_desc"} THEN Lower(PathStr(e.path))
    ELSE fs[e.path].mtime

HasTie(ob, l) ==
    \E i, j \in 1..Len(l) : i < j /\ l[i] # l[j] /\ SpecKey(ob, l[i]) = SpecKey(ob, l[j])

\* C6: order_files(order_files(L, C), C) = order_files(L, C) for every
\* criterion, equal sort keys included; the second call raises nothing.
C6_Idempotent ==
    (op = "order_files" /\ first # None) =>
        /\ pc # "raised"
        /\ pc = "returned" => result = first

\* the second call has returned a list of three with two distinct entries of
\* the same modification time, newest first
C6_Witness ==
    /\ op = "order_files"
    /\ first # None
    /\ pc = "returned"
    /\ params.order_by = "modified_desc"
    /\ Len(result[1]) = MaxLen
    /\ HasTie("modified_desc", result[1])
    /\ \E i \in 1..Len(result[1]) : fs[result[1][i].path].mtime > 0

DistinctLowered(l) ==
    \A i, j \in 1..Len(l) :
        i # j => Lower(PathStr(l[i].path)) # Lower(PathStr(l[j].path))

\* C7: when no two entries have the same lower-cased path string, the reverse
\* of order_files(L, name-ascending) is order_files(L, name-descending).
C7_ReverseOfAscending ==
    (/\ op = "order_files"
     /\ pc = "returned"
     /\ params.order_by = "name_desc"
     /\ DistinctLowered(list_of_files)) =>
        result = Some(Reverse(Sorted(fs, "name_asc", list_of_files)))

\* name-descending has returned two entries with different lowered strings in
\* another order than they were passed
C7_Witness ==
    /\ op = "order_files"
    /\ pc = "returned"
    /\ params.order_by = "name_desc"
    /\ DistinctLowered(list_of_files)
    /\ Len(list_of_files) = 2
    /\ result # Some(list_of_files)

\* C9: order_files is stable under each of the four criteria: entries with
\* equal sort keys come out in the order they were passed in.
C9_Stable ==
    (/\ op = "order_files"
     /\ pc = "returned"
     /\ params.order_by \in FourCriteria) =>
        /\ Len(result[1]) = Len(list_of_files)
        /\ \A i \in 1..Len(list_of_files) :
              LET SameKey(x) == SpecKey(params.order_by, x) =
                                SpecKey(params.order_by, list_of_files[i])
              IN  SelectSeq(result[1], SameKey) = SelectSeq(list_of_files, SameKey)

\* a descending sort has moved an entry past two distinct entries of equal key
C9_Witness ==
    /\ op = "order_files"
    /\ pc = "returned"
    /\ first = None
    /\ params.order_by \in {"name_desc", "modified_desc"}
    /\ HasTie(params.order_by, list_of_files)
    /\ result # Some(list_of_files)


(* ------------------- properties of __init__ and find_files ------------- *)

Range(s) == {s[i] : i \in 1..Len(s)}

NoDuplicates(s) == \A i, j \in 1..Len(s) : i # j => s[i] # s[j]

\* the files below directory d whose base name matches pat
MatchingFilesUnder(d, pat) ==
    {p \in DOMAIN fs : /\ isfile(fs, p)
                       /\ Len(p) > Len(d)
                       /\ IsPrefix(d, p)
                       /\ fnmatch(Basename(p), pat)}

\* levels between directory d and the directory that holds p
DepthBelow(d, p) == Len(Parent(p)) - Len(d)

\* C3: find_files(max_depth=N), N >= 0, returns exactly the matching files
\* whose containing directory is at most N levels below the root; for N = 0
\* these are the matching files directly inside the root.
C3_DepthBound ==
    (pc = "found" /\ max_depth # None) =>
        /\ Range(matched_files) =
              {p \in MatchingFilesUnder(directory, filename_pattern) :
                  DepthBelow(directory, p) <= max_depth[1]}
        /\ max_depth[1] = 0 =>
              Range(matched_files) =
                 {p \in MatchingFilesUnder(directory, filename_pattern) :
                     Parent(p) = directory}

\* find_files(0) has returned a file of the root while a matching file lies in
\* a sub-directory
C3_Witness ==
    /\ pc = "found"
    /\ max_depth = Some(0)
    /\ Len(matched_files) > 0
    /\ \E p \in MatchingFilesUnder(directory, filename_pattern) :
          DepthBelow(directory, p) > 0

\* C4: find_files returns only files under the root whose base name matches,
\* never a directory, never a path outside the root; with max_depth unset it
\* returns each such file exactly once; it raises nothing, also when nothing
\* matches.
C4_FindSound ==
    pc \in {"walking", "found"} =>
        /\ Range(matched_files) \subseteq MatchingFilesUnder(directory, filename_pattern)
        /\ raised = NoError
        /\ (pc = "found" /\ max_depth = None) =>
              /\ Range(matched_files) = MatchingFilesUnder(directory, filename_pattern)
              /\ NoDuplicates(matched_files)

\* an unbounded find_files has returned a file while a matching file lies
\* outside the root
C4_Witness ==
    /\ pc = "found"
    /\ max_depth = None
    /\ Len(matched_files) > 0
    /\ \E p \in DOMAIN fs : /\ isfile(fs, p)
                            /\ ~IsPrefix(directory, p)
                            /\ fnmatch(Basename(p), filename_pattern)

\* C5: __init__ raises FileNotFoundError on a path that does not exist,
\* NotADirectoryError on an existing file, nothing on a directory, whatever
\* the pattern.
C5_Construction ==
    pc # "new" =>
        /\ ~exists(fs, directory) => (pc = "raised" /\ raised = "FileNotFoundError")
        /\ isfile(fs, directory) => (pc = "raised" /\ raised = "NotADirectoryError")
        /\ isdir(fs, directory) => (pc # "raised" /\ raised = NoError)

\* construction on a regular file has failed, the pattern being the unclosed "["
C5_Witness ==
    /\ pc = "raised"
    /\ raised = "NotADirectoryError"
    /\ isfile(fs, directory)
    /\ filename_pattern = <<"[">>


Init ==
    /\ fs \in Trees(MaxEntries)
    /\ pc = "new"
    /\ raised = NoError
    /\ errpath = None
    /\ directory = <<>>
    /\ filename_pattern = <<>>
    /\ max_depth = None
    /\ stack = <<>>
    /\ matched_files = <<>>
    /\ op = "none"
    /\ list_of_files = <<>>
    /\ params = NoParams
    /\ idx = 0
    /\ filtered_files = <<>>
    /\ reads = <<>>
    /\ result = None
    /\ first = None

Next == Construct \/ FindFiles \/ WalkStep \/ FindReturn

Spec == Init /\ [][Next]_vars

\* the state the filter and order specifications start from, f being the
\* filesystem
InitOps(f) ==
    /\ fs = f
    /\ pc = "idle"
    /\ raised = NoError
    /\ errpath = None
    /\ directory = <<>>
    /\ filename_pattern = <<"*">>
    /\ max_depth = None
    /\ stack = <<>>
    /\ matched_files = <<>>
    /\ op = "none"
    /\ list_of_files = <<>>
    /\ params = NoParams
    /\ idx = 0
    /\ filtered_files = <<>>
    /\ reads = <<>>
    /\ result = None
    /\ first = None

InitFilter == \E f \in WithFiles(FilterPaths, 0..MaxTime, 0..MaxSize) : InitOps(f)

NextFilter ==
    \/ FilterByDateCall
    \/ FilterBySizeCall
    \/ VerifyExistence
    \/ FilterByDateIter
    \/ FilterBySizeIter
    \/ FilterReturn

SpecFilter == InitFilter /\ [][NextFilter]_vars

\* order_files reads no size: the sizes stay 0
InitOrder == \E f \in WithFiles(OrderPaths, 0..MaxTime, {0}) : InitOps(f)

NextOrder ==
    \/ OrderFilesCall
    \/ VerifyExistence
    \/ OrderSort
    \/ OrderFilesAgain

SpecOrder == InitOrder /\ [][NextOrder]_vars

====
